---- MODULE Spec2Model ----
(***************************************************************************)
(* pocket-insight: the Dashboard component's aggregation of expense rows   *)
(* (src/src/components/Dashboard.tsx) and the Index page around it: its    *)
(* tabs, the ExpenseForm and the deletion of rows from the list.           *)
(*                                                                         *)
(* Amounts are whole currency units.  A DATE column value ("yyyy-MM-dd")   *)
(* is the record [y, m, d]; a JavaScript Date is an instant, the record    *)
(* [day, ms]: whole days since 1970-01-01T00:00Z and the milliseconds into *)
(* that UTC day.  The environment's timezone is tz, minutes east of UTC.   *)
(***************************************************************************)
EXTENDS Integers, Sequences, FiniteSets, TLC

VARIABLES
    tz,               \* the runtime's UTC offset in minutes (fixed for a run)
    now,              \* the clock: what new Date() returns
    session,          \* the user supabase.auth.getUser() resolves to, or NoUser
    store,            \* public.expenses joined to categories, in insertion order
    pc,               \* where the Dashboard's fetchExpenses / the call stands
    user,             \* fetchExpenses' local `user`
    expenseData,      \* the argument of calculateTotals
    asOf,             \* the value of `now` read by the last calculateTotals
    expenses,         \* useState<Expense[]>([])
    totalExpenses,    \* useState(0)
    monthlyExpenses,  \* useState(0)
    categoryTotals,   \* useState<CategoryTotal[]>([])
    loading,          \* useState(true)
    tab,              \* the tab of Index that is shown, "auth" off the page
    refreshTrigger,   \* Index: useState(0)
    expenseForm,      \* ExpenseForm: its hooks and the place of handleSubmit
    index,            \* Index: its user hook, and whether getSession() is pending
    authForm,         \* AuthForm: its hooks, the place of handleSubmit, its timer
    categoriesTable,  \* public.categories
    categoryManager,  \* CategoryManager: its hooks and the place of its handlers
    expenseList       \* ExpenseList: the list, the two filters, the filtered list

envVars  == <<tz, now, session, store>>
hookVars == <<expenses, totalExpenses, monthlyExpenses, categoryTotals, loading>>
pageVars == <<tab, refreshTrigger, expenseForm>>
vars     == <<tz, now, session, store, pc, user, expenseData, asOf,
              expenses, totalExpenses, monthlyExpenses, categoryTotals, loading,
              tab, refreshTrigger, expenseForm,
              index, authForm, categoriesTable, categoryManager, expenseList>>
restVars == <<index, authForm, categoriesTable, categoryManager, expenseList>>

----------------------------------------------------------------------------
(* Bounds of the model *)

\* longest list handed to calculateTotals
MaxLen == 3

\* most rows in the expenses table
MaxRows == 3

\* most submissions of the expense form that succeed
MaxRefresh == 2

----------------------------------------------------------------------------
(* Calendar: the proleptic Gregorian calendar JavaScript's Date uses *)

MsPerMinute == 60000
MsPerDay == 86400000
EpochYear == 1970

IsLeap(y) == (y % 4 = 0 /\ y % 100 # 0) \/ y % 400 = 0

DaysInYear(y) == IF IsLeap(y) THEN 366 ELSE 365

DaysInMonth(y, m) ==
    IF m = 2 THEN (IF IsLeap(y) THEN 29 ELSE 28)
    ELSE IF m \in {4, 6, 9, 11} THEN 30 ELSE 31

\* leap years before year y
LeapYearsBefore(y) == ((y - 1) \div 4) - ((y - 1) \div 100) + ((y - 1) \div 400)

\* days from 1970-01-01 to January 1 of year y
DaysBeforeYear(y) ==
    365 * (y - EpochYear) + LeapYearsBefore(y) - LeapYearsBefore(EpochYear)

RECURSIVE DaysBeforeMonth(_, _)
DaysBeforeMonth(y, m) ==
    IF m = 1 THEN 0 ELSE DaysBeforeMonth(y, m - 1) + DaysInMonth(y, m - 1)

\* days from 1970-01-01 to the calendar date c
DayNumber(c) == DaysBeforeYear(c.y) + DaysBeforeMonth(c.y, c.m) + (c.d - 1)

\* the year holding day number n, searched downwards from y
RECURSIVE YearFrom(_, _)
YearFrom(n, y) ==
    IF DaysBeforeYear(y) <= n THEN [y |-> y, rest |-> n - DaysBeforeYear(y)]
    ELSE YearFrom(n, y - 1)

RECURSIVE MonthFrom(_, _, _)
MonthFrom(n, y, m) ==
    IF n < DaysInMonth(y, m) THEN [y |-> y, m |-> m, d |-> n + 1]
    ELSE MonthFrom(n - DaysInMonth(y, m), y, m + 1)

\* the calendar date of day number n (n >= 0)
CivilFromDays(n) ==
    LET yr == YearFrom(n, EpochYear + (n \div 365)) IN MonthFrom(yr.rest, yr.y, 1)

\* an instant from a day number and a (possibly out of range) ms offset
Instant(day, ms) == [day |-> day + (ms \div MsPerDay), ms |-> ms % MsPerDay]

\* the Date whose time value is NaN ("Invalid Date")
InvalidDate == [nan |-> TRUE]

\* a <= b on Dates (>= and <= compare the time values); a comparison with
\* NaN is false
InstantLeq(a, b) ==
    IF "nan" \in DOMAIN a \/ "nan" \in DOMAIN b THEN FALSE
    ELSE a.day < b.day \/ (a.day = b.day /\ a.ms <= b.ms)

\* a date string is the record [y, m, d] when it reads "yyyy-MM-dd", and
\* the record [text] when it is any other text
IsIsoDate(s) == DOMAIN s = {"y", "m", "d"}

\* new Date(string): a date-only ISO string is read as UTC midnight, a text
\* that is no date gives Invalid Date
NewDateFromString(s) ==
    IF IsIsoDate(s) THEN Instant(DayNumber(s), 0) ELSE InvalidDate

\* the local calendar date of instant t in a runtime whose offset is off
LocalDate(t, off) == CivilFromDays(Instant(t.day, t.ms + off * MsPerMinute).day)

\* the instant at which the local wall clock of offset off shows date c, ms
FromLocal(c, ms, off) == Instant(DayNumber(c), ms - off * MsPerMinute)

\* date-fns startOfMonth(t): day 1 of t's local month, 00:00:00.000 local
startOfMonth(t, off) ==
    LET c == LocalDate(t, off)
    IN  FromLocal([y |-> c.y, m |-> c.m, d |-> 1], 0, off)

\* date-fns endOfMonth(t): last day of t's local month, 23:59:59.999 local
endOfMonth(t, off) ==
    LET c == LocalDate(t, off)
    IN  FromLocal([y |-> c.y, m |-> c.m, d |-> DaysInMonth(c.y, c.m)],
                  MsPerDay - 1, off)

----------------------------------------------------------------------------
(* Rounding *)

\* n / d rounded to a whole number, halves away from zero: the rounding of
\* Intl.NumberFormat, of toFixed and of a NUMERIC column
RoundHalfExpand(n, d) ==
    IF n >= 0 THEN (2 * n + d) \div (2 * d)
    ELSE 0 - ((2 * (0 - n) + d) \div (2 * d))

----------------------------------------------------------------------------
(* The values the model draws its inputs from *)

NoUser == "null"

\* what handleSubmit has captured while it is not running
NoPayload == [none |-> TRUE]

\* ExpenseForm as mounted: amount is '', loading is false, errors is {}, no
\* submit runs
FormAtRest ==
    [amount |-> <<>>, loading |-> FALSE, errors |-> FALSE, pc |-> "idle",
     sent |-> NoPayload, user |-> NoUser]

\* Index as mounted: user is null; no getSession() is pending off the page
IndexAtRest == [user |-> NoUser, pending |-> FALSE]

\* AuthForm as mounted: login mode, empty fields, no toast, no timer
AuthFormAtRest ==
    [isLogin |-> TRUE, loading |-> FALSE, errors |-> FALSE,
     formData |-> [email |-> <<>>, password |-> <<>>, fullName |-> <<>>],
     pc |-> "idle", toast |-> "none", timer |-> FALSE]

\* the awaits at which fetchCategories calls under way stand; calls that
\* stand at the same await are not told apart
NoFetch == {}

\* CategoryManager's hooks as first rendered: no categories, the dialog
\* closed, an empty name, loading false; no handler under way, no toast
CategoryManagerAtRest ==
    [categories |-> {}, isOpen |-> FALSE, name |-> <<>>, errors |-> FALSE,
     loading |-> FALSE,
     pc |-> "idle", user |-> NoUser, deleting |-> {}, fetching |-> NoFetch,
     toast |-> "none"]

\* public.categories without rows; serial stands for gen_random_uuid(),
\* which never returns an id twice
NoCategories == [rows |-> {}, serial |-> 0]

\* ExpenseList as mounted: no rows, searchTerm '', selectedCategory 'all'
ExpenseListAtRest ==
    [expenses |-> <<>>, searchTerm |-> <<>>, selectedCategory |-> "all",
     filteredExpenses |-> <<>>]

TzOffsets == {-180, 0, 120}

\* 2025-03-01T01:00Z, 2025-03-15T12:00Z and 2025-03-31T23:00Z
Clock ==
    { Instant(DayNumber([y |-> 2025, m |-> 3, d |-> 1]), 3600000),
      Instant(DayNumber([y |-> 2025, m |-> 3, d |-> 15]), 43200000),
      Instant(DayNumber([y |-> 2025, m |-> 3, d |-> 31]), 82800000) }

Feb28 == [y |-> 2025, m |-> 2, d |-> 28]
Mar01 == [y |-> 2025, m |-> 3, d |-> 1]
Mar31 == [y |-> 2025, m |-> 3, d |-> 31]
Apr01 == [y |-> 2025, m |-> 4, d |-> 1]
Dates == {Feb28, Mar01, Mar31, Apr01}

Food      == [name |-> "Food", color |-> "#ef4444", icon |-> "fork"]
FoodBlue  == [name |-> "Food", color |-> "#3b82f6", icon |-> "cart"]
Transport == [name |-> "Transport", color |-> "#10b981", icon |-> "car"]
Categories == {Food, FoodBlue, Transport}

\* Expense rows without their id: the positive amounts in two categories, a
\* recoloured snapshot of one of them, the amounts the store's CHECK forbids,
\* and the days around the ends of February and March
ExpenseDomain ==
    [amount : {5, 7, 10}, date : {Mar01}, category : {Food, Transport}]
    \cup [amount : {5}, date : {Mar01}, category : {FoodBlue}]
    \cup [amount : {-1, 0}, date : {Mar01}, category : {Transport}]
    \cup [amount : {5}, date : {Feb28, Mar31, Apr01}, category : {Food}]

\* interface Expense: the id of a row is its place in the list
WithIds(f) ==
    [i \in 1..Len(f) |->
        [id |-> i, amount |-> f[i].amount, date |-> f[i].date,
         category |-> f[i].category]]

\* every Expense[] of at most MaxLen rows
Inputs == {WithIds(f) : f \in UNION {[1..n -> ExpenseDomain] : n \in 0..MaxLen}}

----------------------------------------------------------------------------
(* calculateTotals *)

\* a reduce that leaves the first row out of the sum
RECURSIVE SumAmountsSkipFirst(_)
SumAmountsSkipFirst(data) ==
    IF Len(data) <= 1 THEN 0
    ELSE SumAmountsSkipFirst(SubSeq(data, 1, Len(data) - 1))
         + data[Len(data)].amount

\* a reduce that drops the rows whose amount is not positive
RECURSIVE SumAmountsPositiveOnly(_)
SumAmountsPositiveOnly(data) ==
    IF data = <<>> THEN 0
    ELSE SumAmountsPositiveOnly(SubSeq(data, 1, Len(data) - 1))
         + (IF data[Len(data)].amount > 0 THEN data[Len(data)].amount ELSE 0)

\* expenseData.reduce((sum, expense) => sum + Number(expense.amount), 0)
RECURSIVE SumAmounts(_)
SumAmounts(data) ==
    IF data = <<>> THEN 0
    ELSE SumAmounts(SubSeq(data, 1, Len(data) - 1)) + data[Len(data)].amount

\* the filter callback: expenseDate >= monthStart && expenseDate <= monthEnd
InMonthWindow(expense, monthStart, monthEnd) ==
    LET expenseDate == NewDateFromString(expense.date)
    IN  InstantLeq(monthStart, expenseDate) /\ InstantLeq(expenseDate, monthEnd)

\* a monthly total that stops at the first row outside the window
RECURSIVE LeadingRows(_, _, _)
LeadingRows(data, monthStart, monthEnd) ==
    IF data = <<>> \/ ~InMonthWindow(Head(data), monthStart, monthEnd)
    THEN <<>>
    ELSE <<Head(data)>> \o LeadingRows(Tail(data), monthStart, monthEnd)

MonthlyTotalOfLeadingRows(data, t, off) ==
    SumAmounts(LeadingRows(data, startOfMonth(t, off), endOfMonth(t, off)))

\* monthlyTotal, for the clock value t read in a runtime of offset off
MonthlyTotal(data, t, off) ==
    LET monthStart == startOfMonth(t, off)
        monthEnd   == endOfMonth(t, off)
    IN  SumAmounts(SelectSeq(data,
            LAMBDA e : InMonthWindow(e, monthStart, monthEnd)))

\* a forEach step that assigns (=) where the code accumulates (+=)
CategoryMapStepOverwrite(map, expense) ==
    LET categoryName == expense.category.name
    IN  IF \E i \in 1..Len(map) : map[i].name = categoryName
        THEN [i \in 1..Len(map) |->
                 IF map[i].name = categoryName
                 THEN [map[i] EXCEPT !.value = expense.amount]
                 ELSE map[i]]
        ELSE Append(map, [name  |-> categoryName,
                          value |-> expense.amount,
                          color |-> expense.category.color,
                          icon  |-> expense.category.icon])

\* a forEach step whose has() test compares the colour, not the name
CategoryMapStepByColor(map, expense) ==
    LET categoryName == expense.category.name
    IN  IF \E i \in 1..Len(map) : map[i].color = expense.category.color
        THEN [i \in 1..Len(map) |->
                 IF map[i].color = expense.category.color
                 THEN [map[i] EXCEPT !.value = @ + expense.amount]
                 ELSE map[i]]
        ELSE Append(map, [name  |-> categoryName,
                          value |-> expense.amount,
                          color |-> expense.category.color,
                          icon  |-> expense.category.icon])

\* a forEach step that also takes the colour and icon of each further row
CategoryMapStepLastSeen(map, expense) ==
    LET categoryName == expense.category.name
    IN  IF \E i \in 1..Len(map) : map[i].name = categoryName
        THEN [i \in 1..Len(map) |->
                 IF map[i].name = categoryName
                 THEN [map[i] EXCEPT !.value = @ + expense.amount,
                                     !.color = expense.category.color,
                                     !.icon = expense.category.icon]
                 ELSE map[i]]
        ELSE Append(map, [name  |-> categoryName,
                          value |-> expense.amount,
                          color |-> expense.category.color,
                          icon  |-> expense.category.icon])

\* a forEach step that takes the amount off (-=) where the code adds it (+=)
CategoryMapStepSubtract(map, expense) ==
    LET categoryName == expense.category.name
    IN  IF \E i \in 1..Len(map) : map[i].name = categoryName
        THEN [i \in 1..Len(map) |->
                 IF map[i].name = categoryName
                 THEN [map[i] EXCEPT !.value = @ - expense.amount]
                 ELSE map[i]]
        ELSE Append(map, [name  |-> categoryName,
                          value |-> expense.amount,
                          color |-> expense.category.color,
                          icon  |-> expense.category.icon])

\* one step of the forEach over categoryMap, a Map kept in insertion order
CategoryMapStep(map, expense) ==
    LET categoryName == expense.category.name
    IN  IF \E i \in 1..Len(map) : map[i].name = categoryName
        THEN [i \in 1..Len(map) |->
                 IF map[i].name = categoryName
                 THEN [map[i] EXCEPT !.value = @ + expense.amount]
                 ELSE map[i]]
        ELSE Append(map, [name  |-> categoryName,
                          value |-> expense.amount,
                          color |-> expense.category.color,
                          icon  |-> expense.category.icon])

\* categoryMap after expenseData.forEach
RECURSIVE CategoryMapFold(_)
CategoryMapFold(data) ==
    IF data = <<>> THEN <<>>
    ELSE CategoryMapStep(CategoryMapFold(SubSeq(data, 1, Len(data) - 1)),
                         data[Len(data)])

\* insertion of entry e into a list kept in descending order of value
RECURSIVE InsertByValue(_, _)
InsertByValue(sorted, e) ==
    IF sorted = <<>> THEN <<e>>
    ELSE IF e.value > sorted[1].value THEN <<e>> \o sorted
    ELSE <<sorted[1]>> \o InsertByValue(Tail(sorted), e)

RECURSIVE SortByValue(_)
SortByValue(list) ==
    IF list = <<>> THEN <<>>
    ELSE InsertByValue(SortByValue(SubSeq(list, 1, Len(list) - 1)),
                       list[Len(list)])

\* the totals sorted by value, largest first, before they are stored
CategoryMapSortedByValue(data) == SortByValue(CategoryMapFold(data))

\* Array.from(categoryMap.values()): the entries in insertion order
CategoryMap(data) == CategoryMapFold(data)

\* a calculateTotals whose total and categories are those of the rows of
\* the current month only
calculateTotalsOfMonthRows(data, t, off) ==
    LET rows == SelectSeq(data,
                    LAMBDA e : InMonthWindow(e, startOfMonth(t, off),
                                             endOfMonth(t, off)))
    IN  [total      |-> SumAmounts(rows),
         monthly    |-> SumAmounts(rows),
         categories |-> CategoryMap(rows)]

\* what calculateTotals hands to the three setters
calculateTotals(data, t, off) ==
    [total      |-> SumAmounts(data),
     monthly    |-> MonthlyTotal(data, t, off),
     categories |-> CategoryMap(data)]

----------------------------------------------------------------------------
(* calculateTotals applied to an arbitrary Expense[] *)

InitCalc ==
    /\ tz \in TzOffsets
    /\ now \in Clock
    /\ session = NoUser
    /\ store = <<>>
    /\ pc = "ready"
    /\ user = NoUser
    /\ expenseData \in Inputs
    /\ asOf = now
    /\ expenses = <<>>
    /\ totalExpenses = 0
    /\ monthlyExpenses = 0
    /\ categoryTotals = <<>>
    /\ loading = TRUE
    /\ tab = "dashboard"
    /\ refreshTrigger = 0
    /\ expenseForm = FormAtRest
    /\ index = IndexAtRest
    /\ authForm = AuthFormAtRest
    /\ categoriesTable = NoCategories
    /\ categoryManager = CategoryManagerAtRest
    /\ expenseList = ExpenseListAtRest

\* a setter that adds the new value to the one the state holds
setTotalExpensesAdding(prev, total) == prev + total

\* setTotalExpenses(total): the state hook takes the new value
setTotalExpenses(prev, total) == total

CalculateTotals ==
    /\ pc = "ready"
    /\ LET r == calculateTotals(expenseData, now, tz)
       IN  /\ totalExpenses' = setTotalExpenses(totalExpenses, r.total)
           /\ monthlyExpenses' = r.monthly
           /\ categoryTotals' = r.categories
    /\ asOf' = now
    /\ pc' = "called"
    /\ UNCHANGED <<envVars, user, expenseData, expenses, loading, pageVars,
                   restVars>>

NextCalc == CalculateTotals

SpecCalc == InitCalc /\ [][NextCalc]_vars

----------------------------------------------------------------------------
(* The category part of calculateTotals on a heap of objects.  An address is
   an index of the heap; row i of the list is the object at address i and its
   category object is at address Len(data) + i. *)

HeapOf(data) ==
    [a \in 1..(2 * Len(data)) |->
        IF a <= Len(data)
        THEN [data[a] EXCEPT !.category = Len(data) + a]
        ELSE data[a - Len(data)].category]

\* the list of n rows that a heap holds
ListOn(heap, n) ==
    [i \in 1..n |-> [heap[i] EXCEPT !.category = heap[heap[i].category]]]

\* a forEach step that puts the row's own category object into the Map
ForEachStepSharing(m, i) ==
    LET expense == m.heap[i]
        category == m.heap[expense.category]
        categoryName == category.name
    IN  IF \E k \in 1..Len(m.map) : m.map[k].name = categoryName
        THEN LET existing ==
                     m.map[CHOOSE k \in 1..Len(m.map) :
                               m.map[k].name = categoryName].ref
             IN  [m EXCEPT !.heap[existing].value = @ + expense.amount]
        ELSE [heap |-> [m.heap EXCEPT ![expense.category] =
                           [name  |-> category.name,
                            color |-> category.color,
                            icon  |-> category.icon,
                            value |-> expense.amount]],
              map  |-> Append(m.map, [name |-> categoryName,
                                      ref  |-> expense.category])]

\* one step of the forEach: existing.value += expense.amount on the object
\* the Map holds, or set() of an object literal allocated at a new address
ForEachStep(m, i) ==
    LET expense == m.heap[i]
        category == m.heap[expense.category]
        categoryName == category.name
    IN  IF \E k \in 1..Len(m.map) : m.map[k].name = categoryName
        THEN LET existing ==
                     m.map[CHOOSE k \in 1..Len(m.map) :
                               m.map[k].name = categoryName].ref
             IN  [m EXCEPT !.heap[existing].value = @ + expense.amount]
        ELSE [heap |-> Append(m.heap, [name  |-> categoryName,
                                       value |-> expense.amount,
                                       color |-> category.color,
                                       icon  |-> category.icon]),
              map  |-> Append(m.map, [name |-> categoryName,
                                      ref  |-> Len(m.heap) + 1])]

\* the heap and the Map after the first n rows of expenseData.forEach
RECURSIVE ForEachOnHeap(_, _)
ForEachOnHeap(data, n) ==
    IF n = 0 THEN [heap |-> HeapOf(data), map |-> <<>>]
    ELSE ForEachStep(ForEachOnHeap(data, n - 1), n)

\* Array.from(categoryMap.values()): a new array of the objects the Map
\* holds; categoryData lists their addresses
CategoryDataOnHeap(data) ==
    LET m == ForEachOnHeap(data, Len(data))
    IN  [heap |-> m.heap,
         categoryData |-> [k \in 1..Len(m.map) |-> m.map[k].ref]]

----------------------------------------------------------------------------
(* calculateTotals called again and again while the clock runs *)

CallDomain ==
    { [amount |-> 5,  date |-> Mar01, category |-> Food],
      [amount |-> 10, date |-> Mar01, category |-> Transport],
      [amount |-> 5,  date |-> Apr01, category |-> FoodBlue] }

CallInputs ==
    {WithIds(f) : f \in UNION {[1..n -> CallDomain] : n \in 0..MaxLen}}

InitCalls ==
    /\ tz \in TzOffsets
    /\ now \in Clock
    /\ session = NoUser
    /\ store = <<>>
    /\ pc = "ready"
    /\ user = NoUser
    /\ expenseData \in CallInputs
    /\ asOf = now
    /\ expenses = <<>>
    /\ totalExpenses = 0
    /\ monthlyExpenses = 0
    /\ categoryTotals = <<>>
    /\ loading = TRUE
    /\ tab = "dashboard"
    /\ refreshTrigger = 0
    /\ expenseForm = FormAtRest
    /\ index = IndexAtRest
    /\ authForm = AuthFormAtRest
    /\ categoriesTable = NoCategories
    /\ categoryManager = CategoryManagerAtRest
    /\ expenseList = ExpenseListAtRest

\* time passes: a later new Date() reads a later instant
Tick ==
    /\ \E t \in Clock :
           /\ ~InstantLeq(t, now)
           /\ now' = t
    /\ UNCHANGED <<tz, session, store, pc, user, expenseData, asOf, hookVars, pageVars,
                   restVars>>

\* a further call, with any list, on the state the call before left
Recalculate ==
    /\ pc \in {"called", "recalled"}
    /\ \E data \in CallInputs :
           /\ expenseData' = data
           /\ LET r == calculateTotals(data, now, tz)
              IN  /\ totalExpenses' = setTotalExpenses(totalExpenses, r.total)
                  /\ monthlyExpenses' = r.monthly
                  /\ categoryTotals' = r.categories
    /\ asOf' = now
    /\ pc' = "recalled"
    /\ UNCHANGED <<envVars, user, expenses, loading, pageVars,
                   restVars>>

NextCalls == CalculateTotals \/ Tick \/ Recalculate

SpecCalls == InitCalls /\ [][NextCalls]_vars

----------------------------------------------------------------------------
(* The Dashboard component over a store *)

Users == {"ana", "bia"}

\* rows of public.expenses joined to their category, without their id; the
\* table's CHECK (amount > 0) holds of every row
RowDomain ==
    [user_id : {"ana"}, amount : {5, 10}, date : {Mar01, Apr01},
     category : {Food}]
    \cup [user_id : {"ana"}, amount : {5}, date : {Mar01},
          category : {Transport}]
    \cup [user_id : {"bia"}, amount : {7}, date : {Mar01}, category : {Food}]

\* the table: the id of a row is its place in it
Tables ==
    {[i \in 1..Len(f) |->
         [id |-> i, user_id |-> f[i].user_id, amount |-> f[i].amount,
          date |-> f[i].date, category |-> f[i].category]] :
     f \in UNION {[1..n -> RowDomain] : n \in 0..MaxRows}}

\* the places in the table of the rows .eq('user_id', uid) keeps
RowsOf(table, uid) == {i \in DOMAIN table : table[i].user_id = uid}

\* the select list: id, amount, date, category
Selected(row) ==
    [id |-> row.id, amount |-> row.amount, date |-> row.date,
     category |-> row.category]

\* .order('date', { ascending: false }) on DATE values
DateDescending(data) ==
    \A i \in 1..(Len(data) - 1) :
        DayNumber(data[i].date) >= DayNumber(data[i + 1].date)

\* a policy that lets everyone at every row
PolicyOpen(row) == TRUE

\* the row-level policies of public.expenses: auth.uid() = user_id
Policy(row) == session # NoUser /\ row.user_id = session

\* the lists the query may answer with: the rows the policy shows and the
\* filter keeps, latest date first, rows of one date in any order
QueryResults(table, uid) ==
    LET S == {i \in RowsOf(table, uid) : Policy(table[i])}
    IN  {data \in {[k \in 1..Cardinality(S) |-> Selected(table[f[k]])] :
                      f \in {g \in [1..Cardinality(S) -> S] :
                                \A a, b \in 1..Cardinality(S) :
                                    a # b => g[a] # g[b]}} :
            DateDescending(data)}

InitDash ==
    /\ tz \in TzOffsets
    /\ now \in Clock
    /\ session \in {NoUser, "ana"}
    /\ store \in Tables
    /\ pc = "unmounted"
    /\ user = NoUser
    /\ expenseData = <<>>
    /\ asOf = now
    /\ expenses = <<>>
    /\ totalExpenses = 0
    /\ monthlyExpenses = 0
    /\ categoryTotals = <<>>
    /\ loading = TRUE
    /\ tab = "dashboard"
    /\ refreshTrigger = 0
    /\ expenseForm = FormAtRest
    /\ index = [user |-> "ana", pending |-> FALSE]
    /\ authForm = AuthFormAtRest
    /\ categoriesTable = NoCategories
    /\ categoryManager = CategoryManagerAtRest
    /\ expenseList = ExpenseListAtRest

\* useEffect(() => { void fetchExpenses(); }, []) up to the first await
\* a mutant of Rendered: the page shows its content without a user
RenderedAlways(u) == TRUE

\* if (!user) the page returns the spinner in place of header and tabs
Rendered(u) == u # NoUser

Mount ==
    /\ tab = "dashboard"
    /\ Rendered(index.user)
    /\ pc = "unmounted"
    /\ pc' = "getUser"
    /\ UNCHANGED <<envVars, user, expenseData, asOf, hookVars, pageVars,
                   restVars>>

\* supabase.auth.getUser() resolves; if (!user) return
GetUserResolved ==
    /\ pc = "getUser"
    /\ user' = session
    /\ pc' = IF session = NoUser THEN "returned" ELSE "query"
    /\ UNCHANGED <<envVars, expenseData, asOf, hookVars, pageVars,
                   restVars>>

\* the query resolves with an error: console.error and return
QueryFailed ==
    /\ pc = "query"
    /\ pc' = "returned"
    /\ UNCHANGED <<envVars, user, expenseData, asOf, hookVars, pageVars,
                   restVars>>

\* the query resolves with data: setExpenses, calculateTotals, setLoading
QueryResolved ==
    /\ pc = "query"
    /\ \E data \in QueryResults(store, user) :
          LET r == calculateTotals(data, now, tz)
          IN  /\ expenses' = data
              /\ expenseData' = data
              /\ totalExpenses' = r.total
              /\ monthlyExpenses' = r.monthly
              /\ categoryTotals' = r.categories
    /\ asOf' = now
    /\ loading' = FALSE
    /\ pc' = "done"
    /\ UNCHANGED <<envVars, user, pageVars,
                   restVars>>

Next == Mount \/ GetUserResolved \/ QueryFailed \/ QueryResolved

Spec == InitDash /\ [][Next]_vars

----------------------------------------------------------------------------
(* ExpenseForm: the amount field, validateForm and the table's column *)

\* the value of a decimal digit, -1 for any other character
DigitValue(c) ==
    LET digits == <<"0", "1", "2", "3", "4", "5", "6", "7", "8", "9">>
    IN  IF \E k \in 1..10 : digits[k] = c
        THEN (CHOOSE k \in 1..10 : digits[k] = c) - 1
        ELSE -1

\* the longest prefix of text made of digits
RECURSIVE LeadingDigits(_)
LeadingDigits(text) ==
    IF text = <<>> \/ DigitValue(Head(text)) < 0 THEN <<>>
    ELSE <<Head(text)>> \o LeadingDigits(Tail(text))

\* the number a sequence of digits writes
RECURSIVE DigitsValue(_)
DigitsValue(ds) ==
    IF ds = <<>> THEN 0
    ELSE 10 * DigitsValue(SubSeq(ds, 1, Len(ds) - 1))
         + DigitValue(ds[Len(ds)])

\* the first three decimals of a sequence of digits, as thousandths
Thousandths(ds) ==
    DigitsValue([k \in 1..3 |-> IF k <= Len(ds) THEN ds[k] ELSE "0"])

NaN == [nan |-> TRUE]

\* parseFloat(text), in thousandths: the longest prefix that reads as a
\* decimal number, NaN when there is none
parseFloat(text) ==
    LET neg  == text # <<>> /\ Head(text) = "-"
        body == IF neg THEN Tail(text) ELSE text
        int  == LeadingDigits(body)
        rest == SubSeq(body, Len(int) + 1, Len(body))
        frac == IF rest # <<>> /\ Head(rest) = "."
                THEN LeadingDigits(Tail(rest)) ELSE <<>>
        abs  == 1000 * DigitsValue(int) + Thousandths(frac)
    IN  IF int = <<>> /\ frac = <<>> THEN NaN
        ELSE [milli |-> IF neg THEN 0 - abs ELSE abs]

\* what can stand in the amount field, an <input type="number">
AmountTexts ==
    { <<>>, <<"0">>, <<"-", "5">>, <<"5">>, <<"1", "0">>,
      <<"0", ".", "0", "0", "4">> }

\* expenseSchema.amount: z.number().positive().max(999999.99); the title,
\* the category and the date of the form are taken to be valid
validateForm(n) ==
    /\ "nan" \notin DOMAIN n
    /\ n.milli > 0
    /\ n.milli <= 999999990

\* amount DECIMAL(10, 2): the value sent, rounded to cents
ToDecimal2(n) == RoundHalfExpand(n.milli, 10)

\* a CHECK that lets zero in
CheckAmountNonNegative(cents) == cents >= 0

\* CHECK (amount > 0), on the value of the column
CheckAmount(cents) == cents > 0

\* gen_random_uuid(): an id no row of the table has
NextId(table) ==
    LET ids == {table[i].id : i \in DOMAIN table}
    IN  IF ids = {} THEN 1
        ELSE 1 + CHOOSE m \in ids : \A j \in ids : j <= m

\* format(date, 'yyyy-MM-dd') of the form's date, new Date() at mount
FormDate == LocalDate(now, tz)

\* the row that the insert of handleSubmit makes; the amounts the model
\* sends are whole, or round to zero cents
InsertedRow ==
    [id |-> NextId(store), user_id |-> expenseForm.user,
     amount |-> ToDecimal2(expenseForm.sent) \div 100,
     date |-> FormDate, category |-> Food]

\* the table without the row at place i
Without(table, i) ==
    [k \in 1..(Len(table) - 1) |-> IF k < i THEN table[k] ELSE table[k + 1]]

----------------------------------------------------------------------------
(* The Index page: its tabs, the Dashboard, the ExpenseForm, the list *)

Tabs == {"dashboard", "add", "expenses"}

PageTables == {t \in Tables : Len(t) <= 1}

InitPage ==
    /\ tz \in TzOffsets
    /\ now \in Clock
    /\ session \in Users
    /\ store \in PageTables
    /\ pc = "unmounted"
    /\ user = NoUser
    /\ expenseData = <<>>
    /\ asOf = now
    /\ expenses = <<>>
    /\ totalExpenses = 0
    /\ monthlyExpenses = 0
    /\ categoryTotals = <<>>
    /\ loading = TRUE
    /\ tab = "dashboard"
    /\ refreshTrigger = 0
    /\ expenseForm = FormAtRest
    /\ index = [user |-> session, pending |-> FALSE]
    /\ authForm = AuthFormAtRest
    /\ categoriesTable = NoCategories
    /\ categoryManager = CategoryManagerAtRest
    /\ expenseList = ExpenseListAtRest

\* the Dashboard leaves the page: a later mount starts from the initial
\* values of its hooks, and a fetch still under way sets nothing
UnmountDashboard ==
    /\ pc' = "unmounted"
    /\ user' = NoUser
    /\ expenseData' = <<>>
    /\ expenses' = <<>>
    /\ totalExpenses' = 0
    /\ monthlyExpenses' = 0
    /\ categoryTotals' = <<>>
    /\ loading' = TRUE
    /\ asOf' = asOf

\* the ExpenseForm leaves the page: a later mount starts from the initial
\* values of its hooks; a handleSubmit under way runs on, detached
UnmountedForm ==
    [expenseForm EXCEPT !.amount = <<>>, !.loading = FALSE, !.errors = FALSE]

\* what the setters of handleSubmit do to the form that is shown: nothing
\* when that form is not the one that was submitted
Attached == tab = "add" /\ expenseForm.loading

\* a click on another TabsTrigger: the content of the tab left is unmounted
SelectTab ==
    /\ tab \in Tabs
    /\ Rendered(index.user)
    /\ \E t \in Tabs \ {tab} : tab' = t
    /\ IF tab = "dashboard" THEN UnmountDashboard
       ELSE UNCHANGED <<pc, user, expenseData, asOf, hookVars>>
    /\ expenseForm' = IF tab = "add" THEN UnmountedForm ELSE expenseForm
    /\ UNCHANGED <<envVars, refreshTrigger,
                   restVars>>

\* onChange of the amount field: setAmount(e.target.value)
TypeAmount ==
    /\ tab = "add"
    /\ Rendered(index.user)
    /\ expenseForm.pc = "idle"
    /\ \E text \in AmountTexts \ {expenseForm.amount} :
           expenseForm' = [expenseForm EXCEPT !.amount = text]
    /\ UNCHANGED <<envVars, pc, user, expenseData, asOf, hookVars, tab,
                   refreshTrigger,
                   restVars>>

\* an onSuccess that counts a submission twice
handleExpenseAddedTwice(prev) == prev + 2

\* handleExpenseAdded: setRefreshTrigger(prev => prev + 1)
handleExpenseAdded(prev) == prev + 1

\* handleSubmit up to its first await.  When validateForm accepts the
\* amount: setErrors({}), setLoading(true) and supabase.auth.getUser();
\* when it does not: setErrors(fieldErrors) and return.
HandleSubmit ==
    /\ tab = "add"
    /\ Rendered(index.user)
    /\ expenseForm.pc = "idle"
    /\ refreshTrigger < MaxRefresh
    /\ expenseForm' =
           IF validateForm(parseFloat(expenseForm.amount))
           THEN [expenseForm EXCEPT !.errors = FALSE,
                                    !.loading = TRUE,
                                    !.pc = "getUser",
                                    !.sent = parseFloat(expenseForm.amount)]
           ELSE [expenseForm EXCEPT !.errors = TRUE]
    /\ UNCHANGED <<envVars, pc, user, expenseData, asOf, hookVars, tab,
                   refreshTrigger,
                   restVars>>

\* getUser() of handleSubmit resolves; without a user: toast,
\* setLoading(false), return
SubmitGetUserResolved ==
    /\ expenseForm.pc = "getUser"
    /\ expenseForm' =
           IF session = NoUser
           THEN [expenseForm EXCEPT !.pc = "idle", !.sent = NoPayload,
                     !.loading = IF Attached THEN FALSE ELSE @]
           ELSE [expenseForm EXCEPT !.pc = "insert", !.user = session]
    /\ UNCHANGED <<envVars, pc, user, expenseData, asOf, hookVars, tab,
                   refreshTrigger,
                   restVars>>

\* the insert resolves without error: the table has the row; the form is
\* reset, onSuccess() is handleExpenseAdded, setLoading(false)
InsertResolved ==
    /\ expenseForm.pc = "insert"
    /\ Policy(InsertedRow)
    /\ CheckAmount(ToDecimal2(expenseForm.sent))
    /\ Len(store) < MaxRows
    /\ store' = Append(store, InsertedRow)
    /\ refreshTrigger' = handleExpenseAdded(refreshTrigger)
    /\ expenseForm' =
           IF Attached THEN FormAtRest
           ELSE [expenseForm EXCEPT !.pc = "idle", !.sent = NoPayload,
                                    !.user = NoUser]
    /\ UNCHANGED <<tz, now, session, pc, user, expenseData, asOf, hookVars,
                   tab,
                   restVars>>

\* the insert resolves with an error, of the table or of the network:
\* toast, setLoading(false)
InsertFailed ==
    /\ expenseForm.pc = "insert"
    /\ expenseForm' = [expenseForm EXCEPT !.pc = "idle", !.sent = NoPayload,
                           !.user = NoUser,
                           !.loading = IF Attached THEN FALSE ELSE @]
    /\ UNCHANGED <<envVars, pc, user, expenseData, asOf, hookVars, tab,
                   refreshTrigger,
                   restVars>>

\* handleDelete(id) of the list: the delete of a row the policy lets at
HandleDelete ==
    /\ tab = "expenses"
    /\ Rendered(index.user)
    /\ \E i \in DOMAIN store :
           /\ Policy(store[i])
           /\ store' = Without(store, i)
    /\ UNCHANGED <<tz, now, session, pc, user, expenseData, asOf, hookVars,
                   pageVars,
                   restVars>>

\* the callback of onAuthStateChange: setSession, setUser and, without a
\* session, navigate("/auth"), which unmounts the page
AuthStateChanged ==
    /\ \E s \in (Users \cup {NoUser}) \ {session} : session' = s
    /\ IF tab \in Tabs /\ session' = NoUser
       THEN /\ tab' = "auth"
            /\ index' = IndexAtRest
            /\ UnmountDashboard
            /\ expenseForm' = UnmountedForm
       ELSE /\ index' = IF tab \in Tabs
                        THEN [index EXCEPT !.user = session']
                        ELSE index
            /\ UNCHANGED <<tab, pc, user, expenseData, asOf, hookVars,
                           expenseForm>>
    /\ UNCHANGED <<tz, now, store, refreshTrigger, authForm,
                   categoriesTable, categoryManager, expenseList>>

\* the page is opened: user and session start null, the effect subscribes
\* and asks for the session, the Tabs show their default tab
OpenIndex ==
    /\ tab = "auth"
    /\ tab' = "dashboard"
    /\ index' = [user |-> NoUser, pending |-> TRUE]
    /\ authForm' = AuthFormAtRest
    /\ UNCHANGED <<envVars, pc, user, expenseData, asOf, hookVars,
                   refreshTrigger, expenseForm, categoriesTable,
                   categoryManager, expenseList>>

\* getSession() resolves: setSession, setUser and, without a session,
\* navigate("/auth")
GetSessionResolved ==
    /\ tab \in Tabs
    /\ index.pending
    /\ IF session = NoUser
       THEN /\ tab' = "auth"
            /\ index' = IndexAtRest
            /\ UnmountDashboard
            /\ expenseForm' = UnmountedForm
       ELSE /\ index' = [user |-> session, pending |-> FALSE]
            /\ UNCHANGED <<tab, pc, user, expenseData, asOf, hookVars,
                           expenseForm>>
    /\ UNCHANGED <<envVars, refreshTrigger, authForm, categoriesTable,
                   categoryManager, expenseList>>

NextPage ==
    \/ Mount \/ GetUserResolved \/ QueryFailed \/ QueryResolved
    \/ SelectTab \/ TypeAmount \/ HandleSubmit \/ SubmitGetUserResolved
    \/ InsertResolved \/ InsertFailed \/ HandleDelete
    \/ AuthStateChanged \/ OpenIndex \/ GetSessionResolved

SpecPage == InitPage /\ [][NextPage]_vars

\* the page of one user whose session lasts
NextTabs ==
    \/ Mount \/ GetUserResolved \/ QueryFailed \/ QueryResolved
    \/ SelectTab \/ TypeAmount \/ HandleSubmit \/ SubmitGetUserResolved
    \/ InsertResolved \/ InsertFailed \/ HandleDelete

SpecTabs == InitPage /\ [][NextTabs]_vars

----------------------------------------------------------------------------
(* What the Dashboard renders once loading is false *)

\* the count of the rows of the current month only
TransactionCountOfMonth ==
    Len(SelectSeq(expenses,
        LAMBDA e : InMonthWindow(e, startOfMonth(asOf, tz), endOfMonth(asOf, tz))))

\* the "Transações" card: expenses.length
TransactionCount == Len(expenses)

\* formatCurrency applied to the quotient num / den: BRL with two decimals;
\* a quotient by zero is NaN (0 / 0) and is printed as such
formatCurrency(num, den) ==
    IF den = 0 THEN [symbol |-> "R$", nan |-> TRUE]
    ELSE [symbol |-> "R$", cents |-> RoundHalfExpand(100 * num, den)]

\* the "Média" card without its guard
AverageCardUnguarded == formatCurrency(totalExpenses, Len(expenses))

\* the "Média" card dividing by the number of categories
AverageCardPerCategory ==
    IF Len(expenses) > 0
    THEN formatCurrency(totalExpenses, Len(categoryTotals))
    ELSE [symbol |-> "R$", cents |-> 0]

\* the "Média" card: formatCurrency(totalExpenses / expenses.length) when
\* expenses.length > 0, and the literal 'R$ 0,00' otherwise
AverageCard ==
    IF Len(expenses) > 0
    THEN formatCurrency(totalExpenses, Len(expenses))
    ELSE [symbol |-> "R$", cents |-> 0]

\* Number.prototype.toFixed(1) of the quotient num / den, in tenths; a
\* quotient by zero is NaN (0 / 0) or an infinity, printed as such
toFixed1(num, den) ==
    IF den = 0
    THEN IF num = 0 THEN [nan |-> TRUE] ELSE [infinity |-> TRUE]
    ELSE [tenths |-> RoundHalfExpand(10 * num, den)]

\* the share of a category in the total of the current month
ShareOfMonth(category) == toFixed1(100 * category.value, monthlyExpenses)

\* the percentage under a category's value:
\* ((category.value / totalExpenses) * 100).toFixed(1)
Share(category) == toFixed1(100 * category.value, totalExpenses)

\* "Detalhamento por Categoria": one share per entry of categoryTotals
CategoryShares == [k \in DOMAIN categoryTotals |-> Share(categoryTotals[k])]

----------------------------------------------------------------------------
(* What the claims measure the code against *)

\* the sum of the amounts of the rows of data at the indices in S
RECURSIVE SumOver(_, _)
SumOver(data, S) ==
    IF S = {} THEN 0
    ELSE LET i == CHOOSE j \in S : TRUE
         IN  data[i].amount + SumOver(data, S \ {i})

\* the sum of the value fields of a list of CategoryTotal
RECURSIVE SumValues(_)
SumValues(list) ==
    IF list = <<>> THEN 0 ELSE list[1].value + SumValues(Tail(list))

NamesOf(data) == {data[i].category.name : i \in DOMAIN data}

IndicesNamed(data, n) == {i \in DOMAIN data : data[i].category.name = n}

FirstIndex(data, n) ==
    CHOOSE i \in IndicesNamed(data, n) : \A j \in IndicesNamed(data, n) : i <= j

\* the rows dated within the calendar month that a clock of offset off
\* shows at instant t, from its first to its last day
IndicesInCalendarMonth(data, t, off) ==
    LET c == LocalDate(t, off)
    IN  {i \in DOMAIN data : data[i].date.y = c.y /\ data[i].date.m = c.m}

\* the in/out decision of the month filter for one row
Decision(expense, t, off) ==
    InMonthWindow(expense, startOfMonth(t, off), endOfMonth(t, off))

\* the instant at which a clock of offset to shows the wall-clock time that
\* a clock of offset from shows at t
SameWallClock(t, from, to) == Instant(t.day, t.ms + (from - to) * MsPerMinute)

Called == pc = "called"

----------------------------------------------------------------------------
(* Claims about calculateTotals, checked under SpecCalc *)

\* C1: after calculateTotals(expenseData), totalExpenses is the sum of the
\* amount field over all rows of expenseData.
C1_TotalIsSumOfAmounts ==
    Called => totalExpenses = SumOver(expenseData, DOMAIN expenseData)

C1_Witness ==
    /\ Called
    /\ Len(expenseData) = 3
    /\ \A i \in 1..3 : expenseData[i].amount > 0
    /\ expenseData[1].amount = 10
    /\ expenseData[2].amount = 5
    /\ expenseData[3].amount = 7
    /\ totalExpenses = 22

\* C2: for a non-empty expenseData, totalExpenses equals the sum of the
\* value fields of the categoryTotals set by the same call.
C2_TotalIsSumOfCategoryValues ==
    (Called /\ expenseData # <<>>) => totalExpenses = SumValues(categoryTotals)

C2_Witness ==
    /\ Called
    /\ Len(expenseData) = 3
    /\ Len(categoryTotals) = 2
    /\ \A i \in 1..2 : categoryTotals[i].value > 0
    /\ totalExpenses = SumValues(categoryTotals)

\* C3 (as claimed): monthlyExpenses is the sum of the amounts of exactly the
\* rows dated from the first to the last calendar day of the month the clock
\* showed when calculateTotals read it.
C3_MonthlyIsCalendarMonthSum ==
    Called =>
        monthlyExpenses =
            SumOver(expenseData, IndicesInCalendarMonth(expenseData, asOf, tz))

\* C4 (as claimed): whether a row passes the month filter depends only on its
\* calendar date and on the calendar month the clock shows: a runtime of any
\* other offset whose clock shows the same wall-clock time decides the same.
C4_DecisionIndependentOfTimezone ==
    Called =>
        \A i \in DOMAIN expenseData : \A off \in TzOffsets :
            Decision(expenseData[i], asOf, tz)
                = Decision(expenseData[i], SameWallClock(asOf, tz, off), off)

\* C5: categoryTotals holds exactly one entry per distinct category name of
\* expenseData, and the entry's value is the sum of the amounts of all rows
\* carrying that name.
C5_OneEntryPerNameWithItsSum ==
    Called =>
        /\ {categoryTotals[k].name : k \in DOMAIN categoryTotals}
               = NamesOf(expenseData)
        /\ \A j, k \in DOMAIN categoryTotals :
               categoryTotals[j].name = categoryTotals[k].name => j = k
        /\ \A k \in DOMAIN categoryTotals :
               categoryTotals[k].value =
                   SumOver(expenseData,
                           IndicesNamed(expenseData, categoryTotals[k].name))

\* Food 10, Transport 5, Food 7 yields Food 17, Transport 5
C5_Witness ==
    /\ Called
    /\ Len(expenseData) = 3
    /\ expenseData[1].category.name = "Food" /\ expenseData[1].amount = 10
    /\ expenseData[2].category.name = "Transport" /\ expenseData[2].amount = 5
    /\ expenseData[3].category.name = "Food" /\ expenseData[3].amount = 7
    /\ Len(categoryTotals) = 2
    /\ categoryTotals[1].name = "Food" /\ categoryTotals[1].value = 17
    /\ categoryTotals[2].name = "Transport" /\ categoryTotals[2].value = 5

\* C6: categoryTotals lists the category names in the order of their first
\* occurrence in expenseData, whatever their values or names.
C6_FirstOccurrenceOrder ==
    Called =>
        \A j, k \in DOMAIN categoryTotals :
            j < k => FirstIndex(expenseData, categoryTotals[j].name)
                         < FirstIndex(expenseData, categoryTotals[k].name)

\* Transport first although Food sorts before it and totals more
C6_Witness ==
    /\ Called
    /\ Len(expenseData) = 3
    /\ expenseData[1].category.name = "Transport"
    /\ expenseData[2].category.name = "Food"
    /\ expenseData[3].category.name = "Food"
    /\ \A i \in 1..3 : expenseData[i].amount > 0
    /\ Len(categoryTotals) = 2
    /\ categoryTotals[1].name = "Transport"
    /\ categoryTotals[2].name = "Food"
    /\ categoryTotals[1].value < categoryTotals[2].value

NonPositive(data) == {i \in DOMAIN data : data[i].amount <= 0}

----------------------------------------------------------------------------
(* Claims about the rendered Dashboard, checked under Spec *)

Done == pc = "done"

Abs(n) == IF n >= 0 THEN n ELSE 0 - n

\* C7: an empty list is no error: when the query answers with no row, the
\* fetch runs to its end and the Dashboard shows total 0, month 0, count 0,
\* average 0 and no category.
C7_EmptyInputYieldsZeros ==
    /\ (pc = "query" /\ RowsOf(store, user) = {}) => ENABLED QueryResolved
    /\ (Done /\ expenseData = <<>>) =>
           /\ totalExpenses = 0
           /\ monthlyExpenses = 0
           /\ TransactionCount = 0
           /\ AverageCard = [symbol |-> "R$", cents |-> 0]
           /\ categoryTotals = <<>>
           /\ loading = FALSE

\* ana owns no row of a table that is not empty
C7_Witness ==
    /\ Done
    /\ expenseData = <<>>
    /\ store # <<>>
    /\ AverageCard = [symbol |-> "R$", cents |-> 0]

\* C8: the average shown is the total of the fetched rows divided by their
\* number (to the cent) when there is a row, and 0 when there is none.
C8_AverageIsTotalOverCount ==
    Done =>
        IF TransactionCount > 0
        THEN /\ DOMAIN AverageCard = {"symbol", "cents"}
             /\ 2 * Abs(AverageCard.cents * TransactionCount
                        - 100 * SumOver(expenses, DOMAIN expenses))
                    <= TransactionCount
        ELSE AverageCard = [symbol |-> "R$", cents |-> 0]

\* 10 + 5 + 5 over 3 rows is 6.67
C8_Witness ==
    /\ Done
    /\ TransactionCount = 3
    /\ totalExpenses = 20
    /\ AverageCard = [symbol |-> "R$", cents |-> 667]

\* C9: the count shown is the number of rows of the list the query answered
\* with, that is of all rows the user owns, whatever their dates and the clock.
C9_CountIsLengthOfInput ==
    Done =>
        /\ TransactionCount = Len(expenseData)
        /\ TransactionCount = Cardinality(RowsOf(store, user))

\* rows outside the month's total are counted all the same
C9_Witness ==
    /\ Done
    /\ TransactionCount = 3
    /\ monthlyExpenses < totalExpenses
    /\ monthlyExpenses > 0


----------------------------------------------------------------------------
(* calculateTotals applied to rows the store would not hold *)

\* a date string that is no date
BadDate == [text |-> "n/a"]

\* the name of a category that has none (undefined)
MissingName == "undefined"

NoNameCategory == [name |-> MissingName, color |-> "#6b7280", icon |-> "tag"]

MalformedDomain ==
    { [amount |-> 5,  date |-> Mar01,   category |-> Food],
      [amount |-> 10, date |-> Mar01,   category |-> Transport],
      [amount |-> 7,  date |-> BadDate, category |-> Food],
      [amount |-> 5,  date |-> Mar01,   category |-> NoNameCategory],
      [amount |-> 7,  date |-> BadDate, category |-> NoNameCategory] }

MalformedInputs ==
    {WithIds(f) : f \in UNION {[1..n -> MalformedDomain] : n \in 0..MaxLen}}

InitMalformed ==
    /\ tz \in TzOffsets
    /\ now \in Clock
    /\ session = NoUser
    /\ store = <<>>
    /\ pc = "ready"
    /\ user = NoUser
    /\ expenseData \in MalformedInputs
    /\ asOf = now
    /\ expenses = <<>>
    /\ totalExpenses = 0
    /\ monthlyExpenses = 0
    /\ categoryTotals = <<>>
    /\ loading = TRUE
    /\ tab = "dashboard"
    /\ refreshTrigger = 0
    /\ expenseForm = FormAtRest
    /\ index = IndexAtRest
    /\ authForm = AuthFormAtRest
    /\ categoriesTable = NoCategories
    /\ categoryManager = CategoryManagerAtRest
    /\ expenseList = ExpenseListAtRest

SpecMalformed == InitMalformed /\ [][NextCalc]_vars

\* the rows with an unparseable date, and those with no category name
BadDateRows(data) == {i \in DOMAIN data : ~IsIsoDate(data[i].date)}
NoNameRows(data) == {i \in DOMAIN data : data[i].category.name = MissingName}
MalformedRows(data) == BadDateRows(data) \cup NoNameRows(data)

\* C11: a row with no category name or an unparseable date makes the
\* aggregation fail fast: the call never completes on such an input and no
\* metric counts the row, so none counts it while another drops it.
C11_MalformedRecordRejected ==
    MalformedRows(expenseData) # {} =>
        /\ ~Called
        /\ totalExpenses = 0 /\ monthlyExpenses = 0 /\ categoryTotals = <<>>


----------------------------------------------------------------------------
(* Claims about repeated calls, checked under SpecCalls *)

\* C12: the result of calculateTotals is a function of its explicit input
\* alone: a further call with the list of the call before leaves every
\* metric as it was, whatever the ambient clock shows by then.
C12_SameInputSameOutput ==
    [][(pc \in {"called", "recalled"} /\ pc' = "recalled"
            /\ expenseData' = expenseData)
        => /\ totalExpenses' = totalExpenses
           /\ monthlyExpenses' = monthlyExpenses
           /\ categoryTotals' = categoryTotals]_vars


\* the permutations of 1..n, and the list data taken in the order p
OrdersOf(n) ==
    {p \in [1..n -> 1..n] : \A i, j \in 1..n : p[i] = p[j] => i = j}
Permuted(data, p) == [i \in DOMAIN data |-> data[p[i]]]

\* the (name, value) pairs of a category list
NameValuePairs(list) == {<<list[k].name, list[k].value>> : k \in DOMAIN list}

\* C16: calculateTotals on any permutation of the list gives the same total,
\* the same monthly total, the same count and average and the same set of
\* (name, value) pairs; the order of the categories, and the colour and
\* icon of a name that rows carry with different ones, may differ.
C16_PermutationInvariant ==
    pc \in {"called", "recalled"} =>
        \A p \in OrdersOf(Len(expenseData)) :
            LET r == calculateTotals(Permuted(expenseData, p), asOf, tz)
            IN  /\ r.total = totalExpenses
                /\ r.monthly = monthlyExpenses
                /\ Len(Permuted(expenseData, p)) = Len(expenseData)
                /\ formatCurrency(r.total, Len(Permuted(expenseData, p)))
                       = formatCurrency(totalExpenses, Len(expenseData))
                /\ NameValuePairs(r.categories)
                       = NameValuePairs(categoryTotals)
                /\ Len(r.categories) = Len(categoryTotals)

\* Transport, a blue Food row out of the month and a red Food row in it:
\* another order of the rows gives the categories in another order, with
\* the same numbers
C16_Witness ==
    /\ pc = "recalled"
    /\ Len(expenseData) = 3
    /\ expenseData[1].category = Transport
    /\ expenseData[2].category = FoodBlue /\ expenseData[2].date = Apr01
    /\ expenseData[3].category = Food /\ expenseData[3].date = Mar01
    /\ monthlyExpenses > 0 /\ monthlyExpenses < totalExpenses
    /\ \E p \in OrdersOf(3) :
           CategoryMap(Permuted(expenseData, p)) # categoryTotals

\* C18: every call recomputes from nothing: after any sequence of calls the
\* metrics are those of a single call with the last list, and nothing of an
\* earlier call is left in them.
C18_ResultIsThatOfLastCall ==
    pc \in {"called", "recalled"} =>
        LET r == calculateTotals(expenseData, asOf, tz)
        IN  /\ totalExpenses = r.total
            /\ totalExpenses = SumOver(expenseData, DOMAIN expenseData)
            /\ monthlyExpenses = r.monthly
            /\ categoryTotals = r.categories

\* a further call with one row of 5, made after the clock moved on
C18_Witness ==
    /\ pc = "recalled"
    /\ Len(expenseData) = 1
    /\ expenseData[1].amount = 5
    /\ totalExpenses = 5
    /\ Len(categoryTotals) = 1
    /\ categoryTotals[1].value = 5
    /\ asOf \notin {t \in Clock : \A u \in Clock : InstantLeq(t, u)}


----------------------------------------------------------------------------
(* Further claims about the Dashboard, checked under Spec *)

\* C13: the rendered share of a category is value / totalExpenses * 100 (to
\* the nearest tenth) and is computed only when totalExpenses is not zero:
\* with a total of zero there is no category and so no share; the exact
\* shares value / totalExpenses * 100 of all categories sum to 100.
C13_ShareIsValueOverTotal ==
    Done =>
        /\ totalExpenses = 0 => CategoryShares = <<>>
        /\ \A k \in DOMAIN categoryTotals :
               /\ totalExpenses # 0
               /\ DOMAIN CategoryShares[k] = {"tenths"}
               /\ 2 * Abs(CategoryShares[k].tenths * totalExpenses
                          - 1000 * categoryTotals[k].value) <= totalExpenses
        /\ categoryTotals # <<>> =>
               100 * SumValues(categoryTotals) = 100 * totalExpenses

\* Food 10 and Transport 5 of a total of 15: 66.7% and 33.3%
C13_Witness ==
    /\ Done
    /\ totalExpenses = 15
    /\ Len(categoryTotals) = 2
    /\ \E k \in 1..2 :
           /\ categoryTotals[k].name = "Food"
           /\ categoryTotals[k].value = 10
           /\ CategoryShares[k] = [tenths |-> 667]
           /\ CategoryShares[3 - k] = [tenths |-> 333]


\* C22: once fetchExpenses has completed, in any of its outcomes (no user,
\* query error, query answered), loading is false and the Dashboard has
\* left its spinner.
C22_LoadingFalseOnceFetchCompleted ==
    pc \in {"returned", "done"} => loading = FALSE

----------------------------------------------------------------------------
(* Further claims about calculateTotals, checked under SpecCalc *)

\* C14: rows of one list that carry the same category name resolve to a
\* single entry of categoryTotals, whatever their colours and icons; its
\* colour and icon are those of the first row with that name, and the later
\* rows with that name add to its value only.
C14_FirstSeenColorAndIcon ==
    Called =>
        \A n \in NamesOf(expenseData) :
            /\ Cardinality({k \in DOMAIN categoryTotals :
                                categoryTotals[k].name = n}) = 1
            /\ \A k \in DOMAIN categoryTotals :
                   categoryTotals[k].name = n =>
                       LET first == expenseData[FirstIndex(expenseData, n)]
                       IN  /\ categoryTotals[k].color = first.category.color
                           /\ categoryTotals[k].icon = first.category.icon
                           /\ categoryTotals[k].value =
                                  SumOver(expenseData,
                                          IndicesNamed(expenseData, n))

\* a red Food row of 10 followed by a blue Food row of 5: one red entry of 15
C14_Witness ==
    /\ Called
    /\ Len(expenseData) = 2
    /\ expenseData[1].category = Food /\ expenseData[1].amount = 10
    /\ expenseData[2].category = FoodBlue
    /\ categoryTotals =
           <<[name |-> "Food", value |-> 15, color |-> Food.color,
              icon |-> Food.icon]>>


\* C15: calculateTotals has no effect on its input: after the call the list
\* and every row and category object of it are as before, and every entry
\* of categoryTotals is an object allocated by the call, at an address that
\* is none of the input's.
C15_InputUntouchedOutputFresh ==
    Called =>
        LET h == CategoryDataOnHeap(expenseData)
            n == Len(expenseData)
        IN  /\ SubSeq(h.heap, 1, 2 * n) = HeapOf(expenseData)
            /\ ListOn(h.heap, n) = expenseData
            /\ \A k \in DOMAIN h.categoryData : h.categoryData[k] > 2 * n
            /\ [k \in DOMAIN h.categoryData |-> h.heap[h.categoryData[k]]]
                   = categoryTotals

\* two Food rows and a Transport row: the second Food row is added to the
\* object the Map holds
C15_Witness ==
    /\ Called
    /\ Len(expenseData) = 3
    /\ expenseData[1].category = Food
    /\ expenseData[2].category = Transport
    /\ expenseData[3].category = Food
    /\ Len(categoryTotals) = 2
    /\ categoryTotals[1].value = expenseData[1].amount + expenseData[3].amount
    /\ CategoryDataOnHeap(expenseData).categoryData = <<7, 8>>


\* C29: when every amount of the list is positive, monthlyExpenses is at
\* most totalExpenses, and the value of every entry of categoryTotals is
\* above zero and at most totalExpenses, whatever the clock and the offset.
C29_MonthlyAndCategoriesWithinTotal ==
    (Called /\ NonPositive(expenseData) = {}) =>
        /\ monthlyExpenses >= 0
        /\ monthlyExpenses <= totalExpenses
        /\ \A k \in DOMAIN categoryTotals :
               /\ categoryTotals[k].value > 0
               /\ categoryTotals[k].value <= totalExpenses

\* three positive rows, two of Food and one of Transport, one of them out
\* of the month
C29_Witness ==
    /\ Called
    /\ Len(expenseData) = 3
    /\ NonPositive(expenseData) = {}
    /\ Len(categoryTotals) = 2
    /\ monthlyExpenses > 0
    /\ monthlyExpenses < totalExpenses
    /\ \E k \in 1..2 : categoryTotals[k].value
                           = expenseData[1].amount + expenseData[3].amount

----------------------------------------------------------------------------
(* Claims about the Index page, checked under SpecTabs and SpecPage *)

\* C17: a mounted Dashboard that has loaded, with no submission under way,
\* shows the metrics of the rows the table now holds for its user: every
\* insert and delete that completed has been followed by a new query.
C17_MountedDashboardIsCurrent ==
    (pc = "done" /\ expenseForm.pc = "idle") =>
        /\ Len(expenses) = Cardinality(RowsOf(store, user))
        /\ totalExpenses = SumOver(store, RowsOf(store, user))

\* C19: every row of the table has amount > 0, whatever was typed and
\* submitted: handleSubmit goes on to its insert only with a number above
\* zero, and the table takes no row whose amount is not above zero.
C19_StoredAmountsPositive ==
    /\ \A i \in DOMAIN store : store[i].amount > 0
    /\ expenseForm.pc \in {"getUser", "insert"} =>
           /\ DOMAIN expenseForm.sent = {"milli"}
           /\ expenseForm.sent.milli > 0

\* after an insert of 10 went through, an insert of 0.004 is at the table,
\* which has room for it and refuses it
C19_Witness ==
    /\ refreshTrigger = 1
    /\ Len(store) < MaxRows
    /\ \E i \in DOMAIN store : store[i].amount = 10 /\ store[i].date = FormDate
    /\ expenseForm.pc = "insert"
    /\ expenseForm.sent = [milli |-> 4]
    /\ Policy(InsertedRow)
    /\ ~ENABLED InsertResolved

\* C20: the list that fetchExpenses hands to calculateTotals holds only rows
\* of the user who is authenticated when the query is answered, who is the
\* user the query asked for; without an authenticated user no query is sent
\* and no row is handed over.
C20_OnlyOwnRecordsFetched ==
    [][/\ (pc = "query" /\ pc' = "done") =>
              /\ expenses' = expenseData'
              /\ \A k \in DOMAIN expenseData' :
                     \E i \in DOMAIN store :
                         /\ Selected(store[i]) = expenseData'[k]
                         /\ store[i].user_id = session
                         /\ store[i].user_id = user
              /\ session = NoUser => expenseData' = <<>>
       /\ (pc = "getUser" /\ session = NoUser) =>
              pc' # "query" /\ expenseData' = <<>>]_vars

\* a Dashboard that shows rows while the table holds a row of another user
C20_Witness ==
    /\ pc = "done"
    /\ session = user
    /\ expenses # <<>>
    /\ \E i \in DOMAIN store : store[i].user_id \notin {user, NoUser}


\* C21: in every state of the page, whatever fetches, submissions, deletes,
\* tab changes and session changes came before and in whatever order they
\* completed, the four hooks of the Dashboard derive from one list: the
\* total is the sum of the amounts of expenses, the category values are
\* those of expenses and sum to the total, and the monthly total is that of
\* expenses for the clock value the call read.
C21_HooksDeriveFromOneList ==
    /\ totalExpenses = SumOver(expenses, DOMAIN expenses)
    /\ SumValues(categoryTotals) = totalExpenses
    /\ categoryTotals = CategoryMap(expenses)
    /\ monthlyExpenses = MonthlyTotal(expenses, asOf, tz)
    /\ expenseData = expenses

\* the Dashboard, mounted again after a submission went through, shows two
\* rows, one of them out of the current month
C21_Witness ==
    /\ pc = "done"
    /\ refreshTrigger = 1
    /\ Len(expenses) = 2
    /\ totalExpenses = expenses[1].amount + expenses[2].amount
    /\ monthlyExpenses > 0
    /\ monthlyExpenses < totalExpenses


\* C24: handleSubmit calls onSuccess once when its insert went through and
\* in no other case: it goes on to getUser only with a form that validateForm
\* accepts, every run that ends without a new row (no user, insert error)
\* leaves refreshTrigger and the amount typed as they were, and every new
\* row of the form raises refreshTrigger by one.
C24_OnSuccessOncePerInsert ==
    [][/\ refreshTrigger' # refreshTrigger =>
              /\ refreshTrigger' = refreshTrigger + 1
              /\ expenseForm.pc = "insert"
              /\ expenseForm'.pc = "idle"
              /\ store' = Append(store, InsertedRow)
       /\ Len(store') > Len(store) => refreshTrigger' = refreshTrigger + 1
       /\ (expenseForm.pc = "idle" /\ expenseForm'.pc # "idle") =>
              /\ validateForm(parseFloat(expenseForm.amount))
              /\ expenseForm'.pc = "getUser"
              /\ store' = store
       /\ (expenseForm.pc = "idle"
               /\ ~validateForm(parseFloat(expenseForm.amount))) =>
              /\ expenseForm'.pc = "idle"
              /\ refreshTrigger' = refreshTrigger
              /\ Len(store') <= Len(store)
       /\ (expenseForm.pc \in {"getUser", "insert"}
               /\ expenseForm'.pc = "idle" /\ store' = store) =>
              /\ refreshTrigger' = refreshTrigger
              /\ expenseForm'.amount = expenseForm.amount]_vars

\* one submission went through; a further one, of 0, was refused by
\* validateForm and left refreshTrigger at 1
C24_Witness ==
    /\ tab = "add"
    /\ refreshTrigger = 1
    /\ Len(store) >= 1
    /\ expenseForm.pc = "idle"
    /\ expenseForm.amount = <<"0">>
    /\ expenseForm.errors

\* C26: the page's content (here the Dashboard, mounted by the content) is
\* on screen only while the page's user is non-null; the page's user is
\* the user of the session it observed last, null until the first
\* observation; and a page that observed a null session has navigated to
\* /auth, so no open page that finished its session check is without a user.
C26_ContentOnlyForObservedUser ==
    /\ pc # "unmounted" => (tab = "dashboard" /\ index.user # NoUser)
    /\ (tab \in Tabs /\ ~index.pending) =>
           (index.user = session /\ session # NoUser)
    /\ (tab \in Tabs /\ index.pending) => index.user \in {NoUser, session}
    /\ (tab \in Tabs /\ index.user # NoUser) => session # NoUser
    /\ tab = "auth" => (index = IndexAtRest /\ pc = "unmounted")

C26_Witness == tab = "dashboard" /\ index.pending /\ index.user = session /\ session # NoUser /\ pc = "done" /\ refreshTrigger = 1

-----------------------------------------------------------------------------
(* ExpenseList: the search box and the category select.  Strings are
   sequences of characters; toLowerCase and includes are JavaScript's. *)

\* String.prototype.toLowerCase over the letters of the model
LowerOf(c) == IF c = "A" THEN "a" ELSE IF c = "B" THEN "b" ELSE c

toLowerCase(s) == [k \in DOMAIN s |-> LowerOf(s[k])]

\* a mutant of includes: the term has to stand at the start of the text
startsWith(s, q) == Len(q) <= Len(s) /\ SubSeq(s, 1, Len(q)) = q

\* String.prototype.includes
includes(s, q) ==
    \E k \in 0..(Len(s) - Len(q)) : SubSeq(s, k + 1, k + Len(q)) = q

\* notes: string | null
NoNotes == [none |-> TRUE]

Notes(text) == [text |-> text]

\* e.title.toLowerCase().includes(q) || e.notes?.toLowerCase().includes(q)
MatchesSearch(e, q) ==
    \/ includes(toLowerCase(e.title), q)
    \/ /\ e.notes # NoNotes
       /\ includes(toLowerCase(e.notes.text), q)

\* the body of the filteredExpenses memo (and of the older filterExpenses)
filterExpenses(list, searchTerm, selectedCategory) ==
    LET q == toLowerCase(searchTerm)
        searched == IF searchTerm # <<>>
                    THEN SelectSeq(list, LAMBDA e : MatchesSearch(e, q))
                    ELSE list
    IN  IF selectedCategory # "all"
        THEN SelectSeq(searched, LAMBDA e : e.category = selectedCategory)
        ELSE searched

\* the expenses the list can hold: title, notes and the id of the category
ListedDomain ==
    { [id |-> 1, title |-> <<"a", "B">>, notes |-> NoNotes, category |-> "food"],
      [id |-> 2, title |-> <<"b">>, notes |-> Notes(<<"A">>), category |-> "food"],
      [id |-> 3, title |-> <<"A", "b">>, notes |-> NoNotes, category |-> "transport"],
      [id |-> 4, title |-> <<"b">>, notes |-> NoNotes, category |-> "food"] }

ListedExpenses ==
    { list \in UNION { [1..n -> ListedDomain] : n \in 0..MaxRows } :
          \A a, b \in DOMAIN list : a # b => list[a].id # list[b].id }

\* what can be typed into the search box
SearchTerms ==
    UNION { [1..n -> {"a", "A", "b"}] : n \in 0..2 }

\* the options of the category select
CategoryOptions == {"all", "food", "transport"}

\* one render of the list
Shown(list, searchTerm, selectedCategory) ==
    [expenses |-> list, searchTerm |-> searchTerm,
     selectedCategory |-> selectedCategory,
     filteredExpenses |-> filterExpenses(list, searchTerm, selectedCategory)]

InitFilter ==
    /\ tz = 0
    /\ now = CHOOSE t \in Clock : TRUE
    /\ session = "ana"
    /\ store = <<>>
    /\ pc = "unmounted"
    /\ user = NoUser
    /\ expenseData = <<>>
    /\ asOf = now
    /\ expenses = <<>>
    /\ totalExpenses = 0
    /\ monthlyExpenses = 0
    /\ categoryTotals = <<>>
    /\ loading = TRUE
    /\ tab = "expenses"
    /\ refreshTrigger = 0
    /\ expenseForm = FormAtRest
    /\ index = [user |-> "ana", pending |-> FALSE]
    /\ authForm = AuthFormAtRest
    /\ categoriesTable = NoCategories
    /\ categoryManager = CategoryManagerAtRest
    /\ \E list \in ListedExpenses : expenseList = Shown(list, <<>>, "all")

filterFixed ==
    <<tz, now, session, store, pc, user, expenseData, asOf, hookVars,
      pageVars, index, authForm, categoriesTable, categoryManager>>

\* onChange of the search box: setSearchTerm and the render that follows
SetSearchTerm ==
    /\ \E text \in SearchTerms \ {expenseList.searchTerm} :
           expenseList' = Shown(expenseList.expenses, text,
                                expenseList.selectedCategory)
    /\ UNCHANGED filterFixed

\* onValueChange of the select: setSelectedCategory and the render
SetSelectedCategory ==
    /\ \E option \in CategoryOptions \ {expenseList.selectedCategory} :
           expenseList' = Shown(expenseList.expenses, expenseList.searchTerm,
                                option)
    /\ UNCHANGED filterFixed

\* the expenses query delivers another list: the memo runs again
ExpensesFetched ==
    /\ \E list \in ListedExpenses \ {expenseList.expenses} :
           expenseList' = Shown(list, expenseList.searchTerm,
                                expenseList.selectedCategory)
    /\ UNCHANGED filterFixed

NextFilter == SetSearchTerm \/ SetSelectedCategory \/ ExpensesFetched

SpecFilter == InitFilter /\ [][NextFilter]_vars

\* the letters a and b are the same up to case
SameLetter(c, d) ==
    \/ c = d
    \/ {c, d} = {"a", "A"}
    \/ {c, d} = {"b", "B"}

\* text contains term, letters compared up to case
ContainsIgnoringCase(text, term) ==
    \E k \in 0..(Len(text) - Len(term)) :
        \A j \in 1..Len(term) : SameLetter(text[k + j], term[j])

\* the positions of the list that pass the search term and the category
PassingPositions(el) ==
    { i \in DOMAIN el.expenses :
        /\ \/ el.searchTerm = <<>>
           \/ ContainsIgnoringCase(el.expenses[i].title, el.searchTerm)
           \/ /\ el.expenses[i].notes # NoNotes
              /\ ContainsIgnoringCase(el.expenses[i].notes.text, el.searchTerm)
        /\ \/ el.selectedCategory = "all"
           \/ el.expenses[i].category = el.selectedCategory }

\* the elements of seq at the positions S, in the order of seq
AtPositions(seq, S) ==
    [k \in 1..Cardinality(S) |->
        seq[CHOOSE i \in S : Cardinality({j \in S : j <= i}) = k]]

\* C27: after every render the filtered list holds exactly the expenses that
\* pass both filters (search term contained in title or notes up to case,
\* category id equal to the selection), in the order of the list; with an
\* empty term and 'all' it is the whole list; and typing a term or choosing
\* a category leaves the list itself as it was.
C27_FilteredIsMatchingSubsequence ==
    [][/\ expenseList'.filteredExpenses =
              AtPositions(expenseList'.expenses, PassingPositions(expenseList'))
       /\ (expenseList'.searchTerm = <<>> /\ expenseList'.selectedCategory = "all")
              => expenseList'.filteredExpenses = expenseList'.expenses
       /\ (\/ expenseList'.searchTerm # expenseList.searchTerm
           \/ expenseList'.selectedCategory # expenseList.selectedCategory)
              => expenseList'.expenses = expenseList.expenses]_vars

C27_Witness == Len(expenseList.expenses) = 3 /\ expenseList.searchTerm = <<"A">> /\ expenseList.selectedCategory = "food" /\ Len(expenseList.filteredExpenses) = 2 /\ expenseList.filteredExpenses[1].id = 2 /\ expenseList.filteredExpenses[2].id = 1 /\ \E i \in 1..3 : expenseList.expenses[i].id = 3

-----------------------------------------------------------------------------
(* CategoryManager over public.categories and public.expenses.  A category
   name is a sequence of characters; the order of the fetched categories is
   left out, the list is the set of its rows. *)

\* categorySchema.parse(newCategory): the name has 2 to 50 characters (the
\* color and the icon keep their valid initial values)
validateCategory(name) == Len(name) >= 2 /\ Len(name) <= 50

\* what can be typed into the name field
NameTexts == { <<>>, <<"g">>, <<"g", "y">>, <<"p", "e">> }

\* the rows public.categories can start with: one of ana, one of bia, one
\* default category without owner
SeedCategories ==
    { [id |-> 1, user_id |-> "ana", name |-> <<"g", "y">>, is_default |-> FALSE],
      [id |-> 2, user_id |-> "bia", name |-> <<"g", "y">>, is_default |-> FALSE],
      [id |-> 3, user_id |-> NoUser, name |-> <<"f", "o">>, is_default |-> TRUE] }

\* the policies of public.categories: USING / WITH CHECK
CategorySelectPolicy(row) ==
    (session # NoUser /\ row.user_id = session) \/ row.is_default

CategoryInsertPolicy(row) ==
    session # NoUser /\ row.user_id = session /\ ~row.is_default

CategoryDeletePolicy(row) ==
    session # NoUser /\ row.user_id = session /\ ~row.is_default

\* UNIQUE(user_id, name)
Duplicate(rows, row) ==
    \E r \in rows : r.user_id = row.user_id /\ r.name = row.name

\* a mutant of Restricts: the foreign key does not hold a category back
RestrictsNever(list, id) == FALSE

\* category_id REFERENCES public.categories(id) ON DELETE RESTRICT
Restricts(list, id) == \E i \in DOMAIN list : list[i].category_id = id

\* .from('categories').select('*').eq('user_id', user.id)
CategoryQueryResult(u) ==
    { row \in categoriesTable.rows :
        row.user_id = u /\ CategorySelectPolicy(row) }

\* the row handleAddCategory inserts
NewCategoryRow ==
    [id |-> categoriesTable.serial + 1, user_id |-> categoryManager.user,
     name |-> categoryManager.name, is_default |-> FALSE]

\* one more fetchCategories call starts
FetchStarted(f) == f \cup {"getUser"}

\* an expense of public.expenses, with the category it belongs to
ExpenseOf(u, id) == [user_id |-> u, category_id |-> id]

InitCategories ==
    /\ tz = 0
    /\ now = CHOOSE t \in Clock : TRUE
    /\ session \in {NoUser, "ana"}
    /\ \E rows \in SUBSET SeedCategories :
           /\ categoriesTable = [rows |-> rows, serial |-> Cardinality(SeedCategories)]
           /\ store \in {<<>>} \cup { <<ExpenseOf("ana", r.id)>> : r \in rows }
    /\ pc = "unmounted"
    /\ user = NoUser
    /\ expenseData = <<>>
    /\ asOf = now
    /\ expenses = <<>>
    /\ totalExpenses = 0
    /\ monthlyExpenses = 0
    /\ categoryTotals = <<>>
    /\ loading = TRUE
    /\ tab = "categories"
    /\ refreshTrigger = 0
    /\ expenseForm = FormAtRest
    /\ index = [user |-> "ana", pending |-> FALSE]
    /\ authForm = AuthFormAtRest
    /\ categoryManager =
           [CategoryManagerAtRest EXCEPT !.fetching = FetchStarted(NoFetch)]
    /\ expenseList = ExpenseListAtRest

categoriesFixed ==
    <<tz, now, session, pc, user, expenseData, asOf, hookVars, pageVars,
      index, authForm, expenseList>>

\* the dialog is opened or closed
SetIsOpen ==
    /\ categoryManager' = [categoryManager EXCEPT !.isOpen = ~@]
    /\ UNCHANGED <<categoriesFixed, store, categoriesTable>>

\* onChange of the name field, which is disabled while loading
SetNewCategoryName ==
    /\ categoryManager.isOpen
    /\ ~categoryManager.loading
    /\ \E text \in NameTexts \ {categoryManager.name} :
           categoryManager' = [categoryManager EXCEPT !.name = text]
    /\ UNCHANGED <<categoriesFixed, store, categoriesTable>>

\* handleAddCategory up to its first await: if (!validateForm()) return;
\* setLoading(true); the button is disabled while loading
HandleAddCategory ==
    /\ categoryManager.isOpen
    /\ ~categoryManager.loading
    /\ categoryManager.pc = "idle"
    /\ categoryManager' =
           IF validateCategory(categoryManager.name)
           THEN [categoryManager EXCEPT !.errors = FALSE, !.loading = TRUE,
                                        !.pc = "getUser"]
           ELSE [categoryManager EXCEPT !.errors = TRUE]
    /\ UNCHANGED <<categoriesFixed, store, categoriesTable>>

\* getUser() resolves in handleAddCategory: if (!user) return
AddGetUserResolved ==
    /\ categoryManager.pc = "getUser"
    /\ categoryManager' =
           [categoryManager EXCEPT
               !.user = session,
               !.pc = IF session = NoUser THEN "idle" ELSE "insert"]
    /\ UNCHANGED <<categoriesFixed, store, categoriesTable>>

\* the insert resolves: rejected as a duplicate, or done, and then the
\* toast, setIsOpen(false), the reset of newCategory, fetchCategories();
\* setLoading(false) in both cases
AddInsertResolved ==
    /\ categoryManager.pc = "insert"
    /\ IF Duplicate(categoriesTable.rows, NewCategoryRow)
       THEN /\ categoryManager' =
                   [categoryManager EXCEPT !.toast = "duplicate",
                                           !.loading = FALSE, !.pc = "idle"]
            /\ UNCHANGED categoriesTable
       ELSE /\ CategoryInsertPolicy(NewCategoryRow)
            /\ categoriesTable.serial <= MaxRows
            /\ categoriesTable' =
                   [rows |-> categoriesTable.rows \cup {NewCategoryRow},
                    serial |-> categoriesTable.serial + 1]
            /\ categoryManager' =
                   [categoryManager EXCEPT
                       !.toast = "added", !.isOpen = FALSE, !.name = <<>>,
                       !.fetching = FetchStarted(@),
                       !.loading = FALSE, !.pc = "idle"]
    /\ UNCHANGED <<categoriesFixed, store>>

\* the insert resolves with another error
AddInsertFailed ==
    /\ categoryManager.pc = "insert"
    /\ categoryManager' =
           [categoryManager EXCEPT !.toast = "addFailed",
                                   !.loading = FALSE, !.pc = "idle"]
    /\ UNCHANGED <<categoriesFixed, store, categoriesTable>>

\* getUser() resolves in a fetchCategories call: if (!user) return
FetchGetUserResolved ==
    /\ "getUser" \in categoryManager.fetching
    /\ categoryManager' =
           [categoryManager EXCEPT
               !.fetching = IF session = NoUser THEN @ \ {"getUser"}
                            ELSE (@ \ {"getUser"}) \cup {"query"}]
    /\ UNCHANGED <<categoriesFixed, store, categoriesTable>>

\* the select resolves with rows: setCategories(data || [])
FetchQueryResolved ==
    /\ "query" \in categoryManager.fetching
    /\ categoryManager' =
           [categoryManager EXCEPT
               !.fetching = @ \ {"query"},
               !.categories = CategoryQueryResult(session)]
    /\ UNCHANGED <<categoriesFixed, store, categoriesTable>>

\* the select resolves with an error: console.error and return
FetchQueryFailed ==
    /\ "query" \in categoryManager.fetching
    /\ categoryManager' =
           [categoryManager EXCEPT !.fetching = @ \ {"query"}]
    /\ UNCHANGED <<categoriesFixed, store, categoriesTable>>

\* the delete button of a listed category that is not a default one
HandleDeleteCategory ==
    /\ \E c \in categoryManager.categories :
           /\ ~c.is_default
           /\ c.id \notin categoryManager.deleting
           /\ categoryManager' =
                  [categoryManager EXCEPT !.deleting = @ \cup {c.id}]
    /\ UNCHANGED <<categoriesFixed, store, categoriesTable>>

\* the delete resolves: the foreign key of public.expenses refuses it, or
\* the rows the policy lets through are deleted and fetchCategories() runs
DeleteResolved ==
    /\ \E id \in categoryManager.deleting :
           LET hit == { row \in categoriesTable.rows :
                          row.id = id /\ CategoryDeletePolicy(row) }
           IN  IF hit # {} /\ Restricts(store, id)
               THEN /\ categoryManager' =
                           [categoryManager EXCEPT
                               !.deleting = @ \ {id},
                               !.toast = "hasExpenses"]
                    /\ UNCHANGED categoriesTable
               ELSE /\ categoriesTable' =
                           [categoriesTable EXCEPT !.rows = @ \ hit]
                    /\ categoryManager' =
                           [categoryManager EXCEPT
                               !.deleting = @ \ {id},
                               !.toast = "deleted",
                               !.fetching = FetchStarted(@)]
    /\ UNCHANGED <<categoriesFixed, store>>

\* the delete resolves with another error
DeleteFailed ==
    /\ \E id \in categoryManager.deleting :
           categoryManager' =
               [categoryManager EXCEPT !.deleting = @ \ {id},
                                       !.toast = "deleteFailed"]
    /\ UNCHANGED <<categoriesFixed, store, categoriesTable>>

\* an expense is added elsewhere, for a category the user can select; the
\* table holds one expense at most
ExpenseInserted ==
    /\ session # NoUser
    /\ store = <<>>
    /\ \E row \in categoriesTable.rows :
           /\ CategorySelectPolicy(row)
           /\ store' = Append(store, ExpenseOf(session, row.id))
    /\ UNCHANGED <<categoriesFixed, categoriesTable, categoryManager>>

\* an expense is deleted elsewhere
ExpenseDeleted ==
    /\ \E i \in DOMAIN store :
           /\ Policy(store[i])
           /\ store' = Without(store, i)
    /\ UNCHANGED <<categoriesFixed, categoriesTable, categoryManager>>

NextCategories ==
    \/ SetIsOpen \/ SetNewCategoryName \/ HandleAddCategory
    \/ AddGetUserResolved \/ AddInsertResolved \/ AddInsertFailed
    \/ FetchGetUserResolved \/ FetchQueryResolved \/ FetchQueryFailed
    \/ HandleDeleteCategory \/ DeleteResolved \/ DeleteFailed
    \/ ExpenseInserted \/ ExpenseDeleted

SpecCategories == InitCategories /\ [][NextCategories]_vars

\* the positions of the expenses that belong to the category id
ExpensesOfCategory(id) == { i \in DOMAIN store : store[i].category_id = id }

CategoryIds(table) == { row.id : row \in table.rows }

\* C23: whenever handleAddCategory is not under way, loading is false, so
\* the controls of the dialog are enabled: each path that sets loading to
\* true sets it back to false before the handler returns.
C23_LoadingFalseWhenAddReturned ==
    categoryManager.pc = "idle" => ~categoryManager.loading

\* C28: no step removes a category that an expense belongs to; a delete of
\* such a category that resolves ends in an error toast, leaves both tables
\* as they were and starts no fetchCategories; and after every step each
\* expense belongs to a category of the table.
C28_ReferencedCategoryIsKept ==
    [][/\ \A row \in categoriesTable.rows :
              ExpensesOfCategory(row.id) # {} => row \in categoriesTable'.rows
       /\ \A id \in categoryManager.deleting \ categoryManager'.deleting :
              (ExpensesOfCategory(id) # {} /\ id \in CategoryIds(categoriesTable))
                  => /\ categoryManager'.toast \in {"hasExpenses", "deleteFailed"}
                     /\ categoriesTable' = categoriesTable
                     /\ store' = store
                     /\ categoryManager'.fetching = categoryManager.fetching
                     /\ categoryManager'.categories = categoryManager.categories
       /\ \A i \in DOMAIN store' :
              store'[i].category_id \in CategoryIds(categoriesTable')]_vars

C28_Witness == categoryManager.toast = "hasExpenses" /\ categoryManager.deleting = {} /\ categoryManager.fetching = NoFetch /\ Len(store) = 1 /\ store[1].category_id = 4 /\ \E row \in categoriesTable.rows : row.id = 4 /\ row \in categoryManager.categories

-----------------------------------------------------------------------------
(* AuthForm: sign-in and sign-up.  The fields hold sequences of
   characters; the auth server decides the outcome of each call. *)

\* the positions of the character c in the text s
PositionsOf(s, c) == { k \in DOMAIN s : s[k] = c }

\* z.string().email(): one "@" after a local part, and a domain whose last
\* dot has a label before it and two characters or more after it
IsEmail(s) ==
    /\ Cardinality(PositionsOf(s, "@")) = 1
    /\ LET at == CHOOSE k \in PositionsOf(s, "@") : TRUE
       IN  /\ at > 1
           /\ \E dot \in PositionsOf(s, ".") :
                  /\ dot > at + 1
                  /\ Len(s) - dot >= 2
                  /\ \A k \in PositionsOf(s, ".") : k <= dot

\* a mutant of authSchemaParse: any password passes
authSchemaAnyPassword(data) == IsEmail(data.email) /\ Len(data.fullName) >= 2

\* authSchema.parse(formData) succeeds; fullName is a string in every state
\* of the form, so .optional() never applies and .min(2) does
authSchemaParse(data) ==
    /\ IsEmail(data.email)
    /\ Len(data.password) >= 6
    /\ Len(data.fullName) >= 2

EmailTexts ==
    { <<>>, <<"a", "@", "b">>, <<"a", "@", "b", ".", "c", "o">> }

PasswordTexts ==
    { <<>>, <<"1", "2", "3", "4", "5">>, <<"1", "2", "3", "4", "5", "6">> }

FullNameTexts == { <<>>, <<"A">>, <<"A", "n">> }

\* the outcomes of a call to the auth server: an error, or a user
AuthError == "error"

InitAuth ==
    /\ tz = 0
    /\ now = CHOOSE t \in Clock : TRUE
    /\ session = NoUser
    /\ store = <<>>
    /\ pc = "unmounted"
    /\ user = NoUser
    /\ expenseData = <<>>
    /\ asOf = now
    /\ expenses = <<>>
    /\ totalExpenses = 0
    /\ monthlyExpenses = 0
    /\ categoryTotals = <<>>
    /\ loading = TRUE
    /\ tab = "auth"
    /\ refreshTrigger = 0
    /\ expenseForm = FormAtRest
    /\ index = IndexAtRest
    /\ authForm = AuthFormAtRest
    /\ categoriesTable = NoCategories
    /\ categoryManager = CategoryManagerAtRest
    /\ expenseList = ExpenseListAtRest

authFixed ==
    <<tz, now, store, pc, user, expenseData, asOf, hookVars, refreshTrigger,
      expenseForm, categoriesTable, categoryManager, expenseList>>

\* onChange of a field; the fields are disabled while loading and the name
\* field is rendered in sign-up mode only
SetFormData ==
    /\ tab = "auth"
    /\ ~authForm.loading
    /\ \/ \E text \in EmailTexts \ {authForm.formData.email} :
              authForm' = [authForm EXCEPT !.formData.email = text]
       \/ \E text \in PasswordTexts \ {authForm.formData.password} :
              authForm' = [authForm EXCEPT !.formData.password = text]
       \/ /\ ~authForm.isLogin
          /\ \E text \in FullNameTexts \ {authForm.formData.fullName} :
                 authForm' = [authForm EXCEPT !.formData.fullName = text]
    /\ UNCHANGED <<authFixed, session, tab, index>>

\* the button under the form: setIsLogin(!isLogin)
SetIsLogin ==
    /\ tab = "auth"
    /\ ~authForm.loading
    /\ authForm' = [authForm EXCEPT !.isLogin = ~@]
    /\ UNCHANGED <<authFixed, session, tab, index>>

\* handleSubmit up to its await: if (!validateForm()) return;
\* setLoading(true); then the call isLogin selects
AuthHandleSubmit ==
    /\ tab = "auth"
    /\ ~authForm.loading
    /\ authForm.pc = "idle"
    /\ authForm' =
           IF authSchemaParse(authForm.formData)
           THEN [authForm EXCEPT
                    !.errors = FALSE, !.loading = TRUE,
                    !.pc = IF authForm.isLogin THEN "signIn" ELSE "signUp"]
           ELSE [authForm EXCEPT !.errors = TRUE]
    /\ UNCHANGED <<authFixed, session, tab, index>>

\* setLoading(false) in the finally block; off the page it sets nothing
Finished(form) ==
    [form EXCEPT !.pc = "idle", !.loading = FALSE]

\* signInWithPassword resolves: an error is thrown to the catch block and
\* toasted; with a user, the welcome toast and the timer of navigate("/app")
SignInResolved ==
    /\ authForm.pc = "signIn"
    /\ \E outcome \in {AuthError} \cup Users :
           IF outcome = AuthError
           THEN /\ authForm' = [Finished(authForm) EXCEPT !.toast = "error"]
                /\ UNCHANGED session
           ELSE /\ session' = outcome
                /\ authForm' = [Finished(authForm) EXCEPT
                                   !.toast = "welcome", !.timer = TRUE]
    /\ UNCHANGED <<authFixed, tab, index>>

\* signUp resolves: an error is thrown to the catch block and toasted;
\* otherwise the toast that asks to confirm the email
SignUpResolved ==
    /\ authForm.pc = "signUp"
    /\ \E outcome \in {AuthError, "created"} :
           authForm' = [Finished(authForm) EXCEPT
                           !.toast = IF outcome = AuthError THEN "error"
                                     ELSE "created"]
    /\ UNCHANGED <<authFixed, session, tab, index>>

\* the timer set after a sign-in fires: navigate("/app") opens the page,
\* its user null and its session check pending, and the form is gone; a
\* handleSubmit still under way runs on
NavigateToApp ==
    /\ authForm.timer
    /\ IF tab = "auth"
       THEN /\ tab' = "dashboard"
            /\ index' = [user |-> NoUser, pending |-> TRUE]
            /\ authForm' = [AuthFormAtRest EXCEPT !.pc = authForm.pc,
                                                  !.toast = authForm.toast]
       ELSE /\ authForm' = [authForm EXCEPT !.timer = FALSE]
            /\ UNCHANGED <<tab, index>>
    /\ UNCHANGED <<authFixed, session>>

NextAuth ==
    \/ SetFormData \/ SetIsLogin \/ AuthHandleSubmit
    \/ SignInResolved \/ SignUpResolved \/ NavigateToApp

SpecAuth == InitAuth /\ [][NextAuth]_vars

\* C25: a timer for navigate("/app") is set only by a sign-in call that
\* resolved without error and with a user; the form is left for the page
\* only when such a timer fires; no call starts, and no timer is set, from
\* a form that fails validation; a sign-up call and a call that resolves
\* with an error set no timer; and loading is false whenever no handleSubmit
\* is under way.
C25_NavigatesOnlyAfterSignIn ==
    [][/\ (authForm'.timer /\ ~authForm.timer) =>
              /\ authForm.pc = "signIn"
              /\ session' \in Users
              /\ authForm'.toast = "welcome"
       /\ tab' # tab => (authForm.timer /\ tab' = "dashboard")
       /\ (authForm.pc = "idle" /\ authForm'.pc # "idle") =>
              /\ IsEmail(authForm.formData.email)
              /\ Len(authForm.formData.password) >= 6
              /\ Len(authForm.formData.fullName) >= 2
              /\ authForm'.pc = IF authForm.isLogin THEN "signIn" ELSE "signUp"
       /\ authForm'.pc = "idle" => ~authForm'.loading]_vars

C25_Witness == tab = "dashboard" /\ index.pending /\ session = "ana" /\ authForm.toast = "welcome" /\ ~authForm.timer /\ authForm.pc = "idle"

====
